---- MODULE Spec2Model ----
(***************************************************************************)
(* Model of Scripts/summary.py: the climate daily summariser, the DBH      *)
(* rollover corrector with its combined daily growth table, and the        *)
(* top-level batch run.                                                    *)
(*                                                                         *)
(* Tables (pandas DataFrames) are sequences of row records in row order.   *)
(* A numeric cell is <<v>>; a missing cell (NaN / NaT) is <<>>.            *)
(* A datetime64 value is a number of minutes since 1970-01-01 00:00.       *)
(* Text (file names, Size tokens) is a sequence of one-character strings.  *)
(***************************************************************************)
EXTENDS Integers, Sequences, FiniteSets, TLC

VARIABLES
    pc,          \* position of the script / of the function under study
    sortKind,    \* how the build's unstable quicksort orders equal keys
    climateDir,  \* ./Extracted : file name -> rows of the CSV
    dbhDir,      \* ./DBH_Raw   : file name -> rows after the leading row
    todo,        \* files still to come in the current directory listing
    all_data,    \* process_dbh_folder's list of corrected frames
    summaries,   \* ./Summaries : output file name -> table written
    wrote,       \* output files written by the current run
    reads,       \* input paths read by the current run
    log,         \* lines printed by the current run
    err,         \* the unhandled exception that ended the run, or "none"
    failedAt,    \* the file whose processing raised
    done_files,  \* input files fully processed by the current run
    result,      \* what process_dbh_folder returned
    prev,        \* ./Summaries as the previous completed run left it
    runs,        \* number of runs started
    fn_in,       \* argument of the function under study
    fn_out       \* its result

vars == <<pc, sortKind, climateDir, dbhDir, todo, all_data, summaries, wrote,
          reads, log, err, failedAt, done_files, result, prev, runs,
          fn_in, fn_out>>

-----------------------------------------------------------------------------
(* Generic helpers                                                         *)

NaN == <<>>

IsNaN(c) == c = <<>>

Num(v) == <<v>>

Val(c) == c[1]

RECURSIVE SeqToSet(_)
SeqToSet(s) == IF s = <<>> THEN {} ELSE {Head(s)} \cup SeqToSet(Tail(s))

SetMin(S) == CHOOSE x \in S : \A y \in S : x <= y

SetMax(S) == CHOOSE x \in S : \A y \in S : x >= y

Perms(S) ==
    {p \in [1..Cardinality(S) -> S] : \A i, j \in 1..Cardinality(S) : i # j => p[i] # p[j]}

-----------------------------------------------------------------------------
(* Calendar arithmetic behind datetime / datetime64                        *)

IsLeap(y) == (y % 4 = 0 /\ y % 100 # 0) \/ y % 400 = 0

DaysInMonth(y, m) ==
    IF m = 2 THEN (IF IsLeap(y) THEN 29 ELSE 28)
    ELSE IF m \in {4, 6, 9, 11} THEN 30 ELSE 31

\* days since 1970-01-01 of a proleptic Gregorian date
DaysFromCivil(y, m, d) ==
    LET yy  == IF m <= 2 THEN y - 1 ELSE y
        era == yy \div 400
        yoe == yy - era * 400
        mp  == IF m > 2 THEN m - 3 ELSE m + 9
        doy == (153 * mp + 2) \div 5 + d - 1
        doe == yoe * 365 + yoe \div 4 - yoe \div 100 + doy
    IN  era * 146097 + doe - 719468

CivilFromDays(z0) ==
    LET z   == z0 + 719468
        era == z \div 146097
        doe == z - era * 146097
        yoe == (doe - doe \div 1460 + doe \div 36524 - doe \div 146096) \div 365
        doy == doe - (365 * yoe + yoe \div 4 - yoe \div 100)
        mp  == (5 * doy + 2) \div 153
        d   == doy - (153 * mp + 2) \div 5 + 1
        m   == IF mp < 10 THEN mp + 3 ELSE mp - 9
        y   == yoe + era * 400 + (IF m <= 2 THEN 1 ELSE 0)
    IN  [y |-> y, mo |-> m, d |-> d]

\* 0 = Sunday; 1970-01-01 was a Thursday
Weekday(days) == (days + 4) % 7

\* the n-th Sunday of month m of year y, as a day number
NthSunday(y, m, n) ==
    LET first == DaysFromCivil(y, m, 1)
    IN  first + ((7 - Weekday(first)) % 7) + 7 * (n - 1)

\* Series.dt.date / datetime.date(): the calendar date of a datetime
DateOf(minutes) == CivilFromDays(minutes \div 1440)

HourOf(minutes) == (minutes % 1440) \div 60

MinuteOf(minutes) == minutes % 60

-----------------------------------------------------------------------------
(* Timestamp text.  A cell of the Timestamp column is the text             *)
(* "YYYY.MM.DD HH:MM" with the numbers it spells (kind "ts"), any other    *)
(* text (kind "junk"), or an empty cell (kind "empty").                    *)

TsText(y, mo, d, h, mi) == [kind |-> "ts", y |-> y, mo |-> mo, d |-> d, h |-> h, mi |-> mi]

JunkText == [kind |-> "junk", y |-> 0, mo |-> 0, d |-> 0, h |-> 0, mi |-> 0]

EmptyText == [kind |-> "empty", y |-> 0, mo |-> 0, d |-> 0, h |-> 0, mi |-> 0]

\* does the text match "%Y.%m.%d %H:%M" (what strptime accepts)
MatchesFormat(t) ==
    /\ t.kind = "ts"
    /\ t.y \in 1..9999
    /\ t.mo \in 1..12
    /\ t.d >= 1 /\ t.d <= DaysInMonth(t.y, t.mo)
    /\ t.h \in 0..23
    /\ t.mi \in 0..59

\* datetime.strptime(dt_string, "%Y.%m.%d %H:%M") on a matching text
Strptime(t) == DaysFromCivil(t.y, t.mo, t.d) * 1440 + t.h * 60 + t.mi

\* America/New_York since 2007: daylight time from the second Sunday of
\* March 02:00 EST (07:00 UTC) to the first Sunday of November 02:00 EDT
\* (06:00 UTC); the offset from UTC in minutes
TIMEZONE(utc) ==
    LET y     == DateOf(utc).y
        start == NthSunday(y, 3, 2) * 1440 + 7 * 60
        end   == NthSunday(y, 11, 1) * 1440 + 6 * 60
    IN  IF utc >= start /\ utc < end THEN -240 ELSE -300

convert_to_eastern_NoShift(t) ==
    IF ~MatchesFormat(t)
    THEN [err |-> IF t.kind = "empty" THEN "TypeError" ELSE "ValueError", value |-> 0]
    ELSE [err |-> "none", value |-> Strptime(t)]

\* convert_to_eastern: parse, read as UTC, shift to New York, drop the zone
convert_to_eastern(t) ==
    IF ~MatchesFormat(t)
    THEN [err |-> IF t.kind = "empty" THEN "TypeError" ELSE "ValueError", value |-> 0]
    ELSE [err |-> "none", value |-> Strptime(t) + TIMEZONE(Strptime(t))]

to_datetime_Coerce(t) ==
    IF ~MatchesFormat(t) THEN [err |-> "none", value |-> NaN]
    ELSE [err |-> "none", value |-> Num(Strptime(t))]

\* pd.to_datetime(col.astype(str), format="%Y.%m.%d %H:%M") on one cell:
\* an empty cell reads as NaN, prints as "nan" and parses to NaT; any other
\* text that does not match raises; no zone shift
to_datetime(t) ==
    IF t.kind = "empty" THEN [err |-> "none", value |-> NaN]
    ELSE IF ~MatchesFormat(t) THEN [err |-> "ValueError", value |-> NaN]
    ELSE [err |-> "none", value |-> Num(Strptime(t))]

-----------------------------------------------------------------------------
(* Text helpers: file names and numeric tokens                             *)

Digits == [c \in {"0", "1", "2", "3", "4", "5", "6", "7", "8", "9"} |->
             CASE c = "0" -> 0 [] c = "1" -> 1 [] c = "2" -> 2 [] c = "3" -> 3
               [] c = "4" -> 4 [] c = "5" -> 5 [] c = "6" -> 6 [] c = "7" -> 7
               [] c = "8" -> 8 [] c = "9" -> 9]

RECURSIVE DigitsValue(_, _)
DigitsValue(tok, acc) ==
    IF tok = <<>> THEN acc
    ELSE DigitsValue(Tail(tok), 10 * acc + Digits[Head(tok)])

\* pd.to_numeric(token, errors="coerce"): the number a token spells, NaN
\* for an empty cell or a token that is not a number
to_numeric(tok) ==
    IF tok # <<>> /\ \A i \in 1..Len(tok) : tok[i] \in DOMAIN Digits
    THEN Num(DigitsValue(tok, 0))
    ELSE NaN

\* str.lower() on the letters that occur in the modelled names
LowerChar(c) ==
    CASE c = "C" -> "c" [] c = "S" -> "s" [] c = "V" -> "v" [] OTHER -> c

Lower(name) == [i \in 1..Len(name) |-> LowerChar(name[i])]

EndsWith(name, suffix) ==
    /\ Len(name) >= Len(suffix)
    /\ SubSeq(name, Len(name) - Len(suffix) + 1, Len(name)) = suffix

DotCsv == <<".", "c", "s", "v">>

\* Path(file).stem: the name without its last suffix
Stem(name) ==
    LET dots == {i \in 2..Len(name) : name[i] = "."}
    IN  IF dots = {} THEN name ELSE SubSeq(name, 1, SetMax(dots) - 1)

\* Path(file).stem.split("_")[0]: the leading token before the first "_"
StationId(name) ==
    LET st == Stem(name)
        us == {i \in 1..Len(st) : st[i] = "_"}
    IN  IF us = {} THEN st ELSE SubSeq(st, 1, SetMin(us) - 1)

-----------------------------------------------------------------------------
(* DataFrame helpers                                                       *)

RemoveAt(s, i) == SubSeq(s, 1, i - 1) \o SubSeq(s, i + 1, Len(s))

\* DataFrame.sort_values("Timestamp"): ascending, NaT last in their given
\* order; the default quicksort is not a stable sort, so rows with equal
\* Timestamp come out in file order or not, as the build's sort has it
RECURSIVE SortValues(_, _)
SortValues(df, kind) ==
    IF df = <<>> THEN <<>>
    ELSE LET valid == {i \in 1..Len(df) : ~IsNaN(df[i].Timestamp)}
         IN  IF valid = {} THEN df
             ELSE LET m     == SetMin({Val(df[i].Timestamp) : i \in valid})
                      cands == {i \in valid : Val(df[i].Timestamp) = m}
                      i     == IF kind = "stable" THEN SetMin(cands) ELSE SetMax(cands)
                  IN  <<df[i]>> \o SortValues(RemoveAt(df, i), kind)

IsIncreasing(ix) == \A i \in 1..(Len(ix) - 1) : ix[i] <= ix[i + 1]

IsDecreasing(ix) == \A i \in 1..(Len(ix) - 1) : ix[i] >= ix[i + 1]

\* df.loc[label:] on a unique integer index: the first position of the
\* slice.  A label in the index starts the slice at its position; a label
\* not in the index is located by bisection when the index is monotonic
\* and is a KeyError otherwise.
LocSliceStart(ix, label) ==
    IF \E i \in 1..Len(ix) : ix[i] = label
    THEN [err |-> "none", pos |-> CHOOSE i \in 1..Len(ix) : ix[i] = label]
    ELSE IF IsIncreasing(ix)
    THEN [err |-> "none", pos |-> Cardinality({i \in 1..Len(ix) : ix[i] < label}) + 1]
    ELSE IF IsDecreasing(ix)
    THEN [err |-> "none", pos |-> Len(ix) - Cardinality({i \in 1..Len(ix) : ix[i] <= label}) + 1]
    ELSE [err |-> "KeyError", pos |-> 0]

-----------------------------------------------------------------------------
(* DBH processing                                                          *)

ROLLOVER == 8890

\* lines 101-106: the rollover correction on the sorted, coerced frame
RolloverCorrect(df) ==
    LET rollover_points == {i \in 1..Len(df) : df[i].Size = Num(ROLLOVER)}
    IN  IF rollover_points = {} THEN [err |-> "none", df |-> df]
        ELSE LET last_8890_index == df[SetMax(rollover_points)].idx
                 start == LocSliceStart([i \in 1..Len(df) |-> df[i].idx], last_8890_index + 1)
             IN  IF start.err # "none" THEN [err |-> start.err, df |-> <<>>]
                 ELSE [err |-> "none",
                       df  |-> [i \in 1..Len(df) |->
                                  IF i >= start.pos /\ ~IsNaN(df[i].Size)
                                  THEN [df[i] EXCEPT !.Size = Num(Val(df[i].Size) + ROLLOVER)]
                                  ELSE df[i]]]

\* compute_dbh_df on the rows that follow the skipped leading row.
\* tsDtype is the dtype of the Timestamp column: Series.apply on an empty
\* column returns the column as it is (object), otherwise datetime64.
compute_dbh_df(rows, kind) ==
    LET conv == [i \in 1..Len(rows) |-> convert_to_eastern(rows[i].Timestamp)]
        bad  == {i \in 1..Len(rows) : conv[i].err # "none"}
    IN  IF bad # {}
        THEN [err |-> conv[SetMin(bad)].err, df |-> <<>>, tsDtype |-> "object"]
        ELSE LET df0 == [i \in 1..Len(rows) |->
                           [idx |-> i - 1, Timestamp |-> Num(conv[i].value), Size |-> rows[i].Size]]
                 df1 == SortValues(df0, kind)
                 df2 == [i \in 1..Len(df1) |-> [df1[i] EXCEPT !.Size = to_numeric(df1[i].Size)]]
                 cor == RolloverCorrect(df2)
             IN  [err |-> cor.err, df |-> cor.df,
                  tsDtype |-> IF Len(rows) = 0 THEN "object" ELSE "datetime64"]

-----------------------------------------------------------------------------
(* Aggregation (DataFrame.groupby(...).agg)                                *)

RECURSIVE AggMin_NaNAsZero(_)
AggMin_NaNAsZero(cells) ==
    IF cells = <<>> THEN NaN
    ELSE LET h == IF IsNaN(Head(cells)) THEN Num(0) ELSE Head(cells)
             r == AggMin_NaNAsZero(Tail(cells))
         IN  IF IsNaN(r) THEN h
             ELSE IF Val(h) <= Val(r) THEN h ELSE r

\* "min" over the cells of one group: missing cells are skipped
RECURSIVE AggMin(_)
AggMin(cells) ==
    IF cells = <<>> THEN NaN
    ELSE LET r == AggMin(Tail(cells))
         IN  IF IsNaN(Head(cells)) THEN r
             ELSE IF IsNaN(r) THEN Head(cells)
             ELSE IF Val(Head(cells)) <= Val(r) THEN Head(cells) ELSE r

\* "max" over the cells of one group: missing cells are skipped
RECURSIVE AggMax(_)
AggMax(cells) ==
    IF cells = <<>> THEN NaN
    ELSE LET r == AggMax(Tail(cells))
         IN  IF IsNaN(Head(cells)) THEN r
             ELSE IF IsNaN(r) THEN Head(cells)
             ELSE IF Val(Head(cells)) >= Val(r) THEN Head(cells) ELSE r

\* "count" over the cells of one group: the number of non-missing cells
RECURSIVE AggCount(_)
AggCount(cells) ==
    IF cells = <<>> THEN 0
    ELSE (IF IsNaN(Head(cells)) THEN 0 ELSE 1) + AggCount(Tail(cells))

\* ascending sequence of a finite set of integers (groupby sorts its keys)
RECURSIVE SortedInts(_)
SortedInts(S) ==
    IF S = {} THEN <<>> ELSE <<SetMin(S)>> \o SortedInts(S \ {SetMin(S)})

\* the rows of df at the positions in S, in row order
SelectRows(df, S) == [k \in 1..Cardinality(S) |-> df[SortedInts(S)[k]]]

\* code points of the characters that occur in the modelled names
Ord(c) ==
    CASE c = "." -> 46 [] c = "1" -> 49 [] c = "2" -> 50 [] c = "A" -> 65
      [] c = "B" -> 66 [] c = "C" -> 67 [] c = "S" -> 83 [] c = "V" -> 86
      [] c = "_" -> 95 [] c = "a" -> 97 [] c = "b" -> 98 [] c = "c" -> 99
      [] c = "s" -> 115 [] c = "t" -> 116 [] c = "v" -> 118 [] c = "x" -> 120
      [] OTHER -> 0

\* string order
RECURSIVE StrLess(_, _)
StrLess(a, b) ==
    IF b = <<>> THEN FALSE
    ELSE IF a = <<>> THEN TRUE
    ELSE IF Ord(Head(a)) # Ord(Head(b)) THEN Ord(Head(a)) < Ord(Head(b))
    ELSE StrLess(Tail(a), Tail(b))

\* order of the (Sensor_ID, date) group keys
KeyLess(k1, k2) ==
    \/ StrLess(k1.sid, k2.sid)
    \/ k1.sid = k2.sid /\ k1.day < k2.day

RECURSIVE SortedKeys(_)
SortedKeys(S) ==
    IF S = {} THEN <<>>
    ELSE LET k == CHOOSE x \in S : \A y \in S \ {x} : KeyLess(x, y)
         IN  <<k>> \o SortedKeys(S \ {k})

-----------------------------------------------------------------------------
(* Climate daily summary                                                   *)

Column(df, c) == [i \in 1..Len(df) |-> df[i][c]]

\* the day number of the Date cell of a parsed climate row, NaN for NaT
DateKey(ts) == IF IsNaN(ts) THEN NaN ELSE Num(Val(ts) \div 1440)

\* daily_summary up to the table handed to to_csv (lines 40-56)
daily_summary(rows, kind) ==
    LET parsed == [i \in 1..Len(rows) |-> to_datetime(rows[i].Timestamp)]
    IN  IF \E i \in 1..Len(rows) : parsed[i].err # "none"
        THEN [err |-> "ValueError", table |-> <<>>]
        ELSE LET df0  == [i \in 1..Len(rows) |-> [rows[i] EXCEPT !.Timestamp = parsed[i].value]]
                 df   == SortValues(df0, kind)
                 days == SortedInts({Val(DateKey(df[i].Timestamp)) :
                                       i \in {j \in 1..Len(df) : ~IsNaN(df[j].Timestamp)}})
                 Grp(day) == SelectRows(df, {i \in 1..Len(df) : DateKey(df[i].Timestamp) = Num(day)})
             IN  [err   |-> "none",
                  table |-> [g \in 1..Len(days) |->
                     LET grp == Grp(days[g])
                     IN  [Date      |-> CivilFromDays(days[g]),
                          T1_Min    |-> AggMin(Column(grp, "T1")),
                          T1_Max    |-> AggMax(Column(grp, "T1")),
                          T2_Min    |-> AggMin(Column(grp, "T2")),
                          T2_Max    |-> AggMax(Column(grp, "T2")),
                          T3_Min    |-> AggMin(Column(grp, "T3")),
                          T3_Max    |-> AggMax(Column(grp, "T3")),
                          Soil_Min  |-> AggMin(Column(grp, "SM")),
                          Soil_Max  |-> AggMax(Column(grp, "SM")),
                          Shake_Max |-> AggMax(Column(grp, "SH")),
                          Rows      |-> AggCount(Column(grp, "Timestamp"))]]]

\* dest_path of daily_summary: "{station_id}_daily.csv" in the dest folder
DailyPath(station_id) == station_id \o <<"_", "d", "a", "i", "l", "y", ".", "c", "s", "v">>

-----------------------------------------------------------------------------
(* DBH daily growth                                                        *)

\* v / 10.0 as a decimal with one fractional digit
DivTen(v) == [units |-> v \div 10, tenths |-> v % 10]

\* pd.concat(all_data, ignore_index=True): the frames' rows in list order
RECURSIVE Concat(_)
Concat(frames) ==
    IF frames = <<>> THEN <<>> ELSE Head(frames).df \o Concat(Tail(frames))

DailyGrowth_PerFile(frames) ==
    LET combined == Concat(frames)
        keys == SortedKeys({[sid |-> combined[i].Sensor_ID,
                             day |-> Val(combined[i].Timestamp) \div 1440] :
                            i \in 1..Len(combined)})
        lastOf(k) == SetMax({f \in 1..Len(frames) : \E i \in 1..Len(frames[f].df) :
                        /\ frames[f].df[i].Sensor_ID = k.sid
                        /\ Val(frames[f].df[i].Timestamp) \div 1440 = k.day})
    IN  [g \in 1..Len(keys) |->
           LET df  == frames[lastOf(keys[g])].df
               grp == SelectRows(df, {i \in 1..Len(df) :
                         Val(df[i].Timestamp) \div 1440 = keys[g].day})
               mn  == AggMin(Column(grp, "Size"))
               mx  == AggMax(Column(grp, "Size"))
               gr  == IF IsNaN(mn) \/ IsNaN(mx) THEN NaN ELSE Num(Val(mx) - Val(mn))
           IN  [Sensor_ID |-> keys[g].sid,
                Timestamp |-> CivilFromDays(keys[g].day),
                Min_Size  |-> mn,
                Max_Size  |-> mx,
                Growth_mm |-> gr,
                Growth_cm |-> IF IsNaN(gr) THEN NaN ELSE Num([units |-> Val(gr) \div 10, tenths |-> Val(gr) % 10])]]

\* lines 132-140: the combined table grouped by (Sensor_ID, local date)
DailyGrowth(frames) ==
    LET combined == Concat(frames)
        keys == SortedKeys({[sid |-> combined[i].Sensor_ID,
                             day |-> Val(combined[i].Timestamp) \div 1440] :
                            i \in 1..Len(combined)})
    IN  [g \in 1..Len(keys) |->
           LET grp == SelectRows(combined, {i \in 1..Len(combined) :
                         /\ combined[i].Sensor_ID = keys[g].sid
                         /\ Val(combined[i].Timestamp) \div 1440 = keys[g].day})
               mn  == AggMin(Column(grp, "Size"))
               mx  == AggMax(Column(grp, "Size"))
               gr  == IF IsNaN(mn) \/ IsNaN(mx) THEN NaN ELSE Num(Val(mx) - Val(mn))
           IN  [Sensor_ID |-> keys[g].sid,
                Timestamp |-> CivilFromDays(keys[g].day),
                Min_Size  |-> mn,
                Max_Size  |-> mx,
                Growth_mm |-> gr,
                Growth_cm |-> IF IsNaN(gr) THEN NaN ELSE Num(DivTen(Val(gr)))]]

\* the dtype of combined["Timestamp"]: object when every frame is empty;
\* with empty and non-empty frames together, datetime64 if the pandas build
\* leaves empty frames out of the dtype decision, object if it does not
ConcatTsDtypes(frames) ==
    IF \A i \in 1..Len(frames) : frames[i].tsDtype = "object" THEN {"object"}
    ELSE IF \E i \in 1..Len(frames) : frames[i].tsDtype = "object"
    THEN {"object", "datetime64"}
    ELSE {"datetime64"}

DbhSummaryName == <<"d", "b", "h", "_", "s", "u", "m", "m", "a", "r", "y", ".", "c", "s", "v">>

-----------------------------------------------------------------------------
(* Bounds and input domains                                                *)

MaxDbhRows == 3

MaxRows == 2

MaxFiles == 2

MaxRuns == 2

SortKinds == {"stable", "reversed"}

\* all sequences over S of length at most n
SeqsUpTo(S, n) == UNION {[1..k -> S] : k \in 0..n}

Tok50 == <<"5", "0">>

Tok8890 == <<"8", "8", "9", "0">>

Tok57 == <<"5", "7">>

TokText == <<"x">>

DbhRow(t, tok) == [Timestamp |-> t, Size |-> tok]

NoFrames == <<>>

EmptyDir == <<>>

NoResult == [kind |-> "unset", table |-> <<>>]

NoPath == [folder |-> "", name |-> <<>>]

InputPath(folder, name) == [folder |-> folder, name |-> name]

RunIdle ==
    /\ climateDir = EmptyDir
    /\ dbhDir = EmptyDir
    /\ todo = <<>>
    /\ all_data = NoFrames
    /\ summaries = EmptyDir
    /\ wrote = {}
    /\ reads = {}
    /\ log = <<>>
    /\ err = "none"
    /\ failedAt = NoPath
    /\ done_files = <<>>
    /\ result = NoResult
    /\ prev = EmptyDir
    /\ runs = 0

runVars == <<climateDir, dbhDir, todo, all_data, summaries, wrote, reads, log,
             err, failedAt, done_files, result, prev, runs>>

-----------------------------------------------------------------------------
(* compute_dbh_df as a function of one file                                *)

StudyTimes == {TsText(2023, 7, 4, 16, 0), TsText(2023, 7, 4, 17, 0), TsText(2023, 7, 5, 2, 0)}

StudyRows == {DbhRow(t, tok) : t \in StudyTimes, tok \in {Tok50, Tok8890, TokText}}

\* the spec's example: Sizes 100, 500, 8890, 50, 300 in time order
ExampleFile ==
    << DbhRow(TsText(2023, 7, 4, 12, 0), <<"1", "0", "0">>),
       DbhRow(TsText(2023, 7, 4, 13, 0), <<"5", "0", "0">>),
       DbhRow(TsText(2023, 7, 4, 14, 0), Tok8890),
       DbhRow(TsText(2023, 7, 4, 15, 0), Tok50),
       DbhRow(TsText(2023, 7, 4, 16, 0), <<"3", "0", "0">>) >>

InitDbh ==
    /\ pc = "dbh_call"
    /\ sortKind \in SortKinds
    /\ fn_in \in SeqsUpTo(StudyRows, MaxDbhRows) \cup {ExampleFile}
    /\ fn_out = [err |-> "none", df |-> <<>>, tsDtype |-> "object"]
    /\ RunIdle

ComputeDbhReturn ==
    /\ pc = "dbh_call"
    /\ compute_dbh_df(fn_in, sortKind).err = "none"
    /\ fn_out' = compute_dbh_df(fn_in, sortKind)
    /\ pc' = "dbh_returned"
    /\ UNCHANGED <<sortKind, fn_in, runVars>>

ComputeDbhRaise ==
    /\ pc = "dbh_call"
    /\ compute_dbh_df(fn_in, sortKind).err # "none"
    /\ fn_out' = compute_dbh_df(fn_in, sortKind)
    /\ pc' = "dbh_raised"
    /\ UNCHANGED <<sortKind, fn_in, runVars>>

NextDbh == ComputeDbhReturn \/ ComputeDbhRaise

SpecDbh == InitDbh /\ [][NextDbh]_vars

\* the coerced input Size of the file row that carries index label ix
InputSize(ix) == to_numeric(fn_in[ix + 1].Size)

FileHas8890 == \E i \in 1..Len(fn_in) : InputSize(i - 1) = Num(ROLLOVER)

\* the rows of the returned frame are in ascending time order
TimeSorted(df) == \A i \in 1..(Len(df) - 1) : Val(df[i].Timestamp) <= Val(df[i + 1].Timestamp)

\* position in the returned frame of the last row whose input Size is 8890
Last8890Pos(df) == SetMax({i \in 1..Len(df) : InputSize(df[i].idx) = Num(ROLLOVER)})

Shifted(c) == IF IsNaN(c) THEN NaN ELSE Num(Val(c) + ROLLOVER)

\* C1 (as claimed): whatever the order of the rows in the file, the call
\* returns the rows in time order and, when some row has Size 8890, every
\* row strictly after the last such row has Size = input Size + 8890.
C1_Claim ==
    (pc \in {"dbh_returned", "dbh_raised"} /\ FileHas8890) =>
        /\ pc = "dbh_returned"
        /\ TimeSorted(fn_out.df)
        /\ \A i \in 1..Len(fn_out.df) :
              i > Last8890Pos(fn_out.df) =>
                 fn_out.df[i].Size = Shifted(InputSize(fn_out.df[i].idx))

\* C2 (as claimed): every row at or before the last 8890 row keeps its
\* Size, and a file without an 8890 row keeps every Size and returns.
C2_Claim ==
    /\ (pc \in {"dbh_returned", "dbh_raised"} /\ FileHas8890) =>
          /\ pc = "dbh_returned"
          /\ \A i \in 1..Len(fn_out.df) :
                i <= Last8890Pos(fn_out.df) =>
                   fn_out.df[i].Size = InputSize(fn_out.df[i].idx)
    /\ (pc \in {"dbh_returned", "dbh_raised"} /\ ~FileHas8890) =>
          /\ pc = "dbh_returned"
          /\ \A i \in 1..Len(fn_out.df) :
                fn_out.df[i].Size = InputSize(fn_out.df[i].idx)

-----------------------------------------------------------------------------
(* The batch run (__main__)                                                *)

EXTRACT_FOLDER == "./Extracted"

SUMMARIES_FOLDER == "./Summaries"

DBH_STATIC_FOLDER == "./DBH_Raw"

JOINED_DENDRO_CSV == "./joined_dendro.csv"

JOINED_TMS_CSV == "./joined_tms.csv"

ClimateRow(t, t1, t2, t3, sm, sh) ==
    [Timestamp |-> t, T1 |-> t1, T2 |-> t2, T3 |-> t3, SM |-> sm, SH |-> sh]

ClimateRowSet ==
    { ClimateRow(TsText(2023, 7, 4, 16, 0), Num(5), Num(6), Num(7), Num(30), Num(1)),
      ClimateRow(TsText(2023, 7, 4, 2, 0), NaN, NaN, NaN, NaN, NaN),
      ClimateRow(TsText(2023, 7, 5, 2, 0), Num(3), NaN, Num(9), Num(20), NaN),
      ClimateRow(EmptyText, Num(1), Num(2), Num(3), Num(4), Num(5)),
      ClimateRow(JunkText, Num(1), Num(2), Num(3), Num(4), Num(5)) }

DbhRowSet ==
    { DbhRow(TsText(2023, 7, 4, 16, 0), Tok57),
      DbhRow(TsText(2023, 7, 4, 16, 0), TokText),
      DbhRow(TsText(2023, 7, 4, 2, 0), Tok8890),
      DbhRow(TsText(2023, 7, 4, 2, 0), Tok57),
      DbhRow(JunkText, Tok57) }

NotesTxt == <<"x", ".", "t", "x", "t">>

ClimateNames ==
    { <<"A", "_", "1", ".", "c", "s", "v">>, <<"A", "_", "2", ".", "c", "s", "v">> }

DbhNames ==
    { <<"s", "_", "a", ".", "c", "s", "v">>, <<"s", "_", "b", ".", "c", "s", "v">>,
      <<"t", ".", "C", "S", "V">> }

\* the file test of summarize_folder (line 67)
IsClimateCsv(file) == EndsWith(file, DotCsv)

\* the file test of process_dbh_folder (line 117)
IsDbhCsv(file) == EndsWith(Lower(file), DotCsv)

\* a directory with one more file
WithFile(dir, name, rows) ==
    [n \in DOMAIN dir \cup {name} |-> IF n = name THEN rows ELSE dir[n]]

\* every directory holding at most maxFiles of the names and at most
\* maxRows rows in all
RECURSIVE Folders(_, _, _, _)
Folders(names, rowset, maxFiles, maxRows) ==
    IF names = {} \/ maxFiles = 0 THEN {EmptyDir}
    ELSE LET n    == CHOOSE x \in names : TRUE
             rest == names \ {n}
         IN  Folders(rest, rowset, maxFiles, maxRows)
               \cup UNION {{WithFile(d, n, t) : d \in Folders(rest, rowset, maxFiles - 1, maxRows - k),
                                                t \in [1..k -> rowset]} : k \in 0..maxRows}

\* the climate folder while the DBH folder is varied: one station file and
\* a file that is not a .csv
SmallClimateFolders ==
    { WithFile(WithFile(EmptyDir, NotesTxt, <<>>), <<"B", ".", "c", "s", "v">>,
               <<ClimateRow(TsText(2023, 7, 4, 16, 0), Num(5), Num(6), Num(7), Num(30), Num(1))>>) }

\* the DBH folder while the climate folder is varied: no .csv file
SmallDbhFolders == { WithFile(EmptyDir, NotesTxt, <<>>) }

Init ==
    /\ pc = "start"
    /\ sortKind \in SortKinds
    /\ \/ /\ climateDir \in Folders(ClimateNames, ClimateRowSet, MaxFiles, MaxRows)
          /\ dbhDir \in SmallDbhFolders
       \/ /\ climateDir \in SmallClimateFolders
          /\ dbhDir \in Folders(DbhNames, DbhRowSet, MaxFiles, MaxRows)
    /\ todo = <<>>
    /\ all_data = NoFrames
    /\ summaries = EmptyDir
    /\ wrote = {}
    /\ reads = {}
    /\ log = <<>>
    /\ err = "none"
    /\ failedAt = NoPath
    /\ done_files = <<>>
    /\ result = NoResult
    /\ prev = EmptyDir
    /\ runs = 0
    /\ fn_in = <<>>
    /\ fn_out = <<>>

Line(msg) == [msg |-> msg, arg |-> <<>>]

\* lines 167-170: makedirs, the first print and the walk of ./Extracted in
\* the order the file system lists it
Start ==
    /\ pc = "start"
    /\ runs' = runs + 1
    /\ log' = <<Line("Generating climate summaries...")>>
    /\ \E order \in Perms(DOMAIN climateDir) : todo' = order
    /\ pc' = "climate"
    /\ UNCHANGED <<sortKind, climateDir, dbhDir, all_data, summaries, wrote, reads,
                   err, failedAt, done_files, result, prev, fn_in, fn_out>>

\* summarize_folder, a file that is not a .csv (line 67)
SummarizeSkip ==
    /\ pc = "climate" /\ todo # <<>>
    /\ ~IsClimateCsv(Head(todo))
    /\ todo' = Tail(todo)
    /\ UNCHANGED <<pc, sortKind, climateDir, dbhDir, all_data, summaries, wrote, reads,
                   log, err, failedAt, done_files, result, prev, runs, fn_in, fn_out>>

\* summarize_folder, one .csv file: read, daily_summary, to_csv
SummarizeFile ==
    /\ pc = "climate" /\ todo # <<>>
    /\ IsClimateCsv(Head(todo))
    /\ LET file == Head(todo)
           out  == daily_summary(climateDir[file], sortKind)
           dest == DailyPath(StationId(file))
       IN  /\ out.err = "none"
           /\ reads' = reads \cup {InputPath(EXTRACT_FOLDER, file)}
           /\ summaries' = WithFile(summaries, dest, out.table)
           /\ wrote' = wrote \cup {dest}
           /\ done_files' = Append(done_files, InputPath(EXTRACT_FOLDER, file))
    /\ todo' = Tail(todo)
    /\ UNCHANGED <<pc, sortKind, climateDir, dbhDir, all_data, log, err, failedAt,
                   result, prev, runs, fn_in, fn_out>>

\* summarize_folder, one .csv file whose Timestamp column does not parse:
\* the exception leaves daily_summary, summarize_folder and the script
SummarizeRaise ==
    /\ pc = "climate" /\ todo # <<>>
    /\ IsClimateCsv(Head(todo))
    /\ LET file == Head(todo)
           out  == daily_summary(climateDir[file], sortKind)
       IN  /\ out.err # "none"
           /\ reads' = reads \cup {InputPath(EXTRACT_FOLDER, file)}
           /\ err' = out.err
           /\ failedAt' = InputPath(EXTRACT_FOLDER, file)
    /\ pc' = "failed"
    /\ UNCHANGED <<sortKind, climateDir, dbhDir, todo, all_data, summaries, wrote, log,
                   done_files, result, prev, runs, fn_in, fn_out>>

\* lines 172-173 and 114-116: summarize_folder returns, the second print,
\* and the listing of ./DBH_Raw in the order the file system gives
ClimateDone ==
    /\ pc = "climate" /\ todo = <<>>
    /\ log' = Append(log, Line("Processing DBH corrections..."))
    /\ \E order \in Perms(DOMAIN dbhDir) : todo' = order
    /\ all_data' = NoFrames
    /\ pc' = "dbh"
    /\ UNCHANGED <<sortKind, climateDir, dbhDir, summaries, wrote, reads, err, failedAt,
                   done_files, result, prev, runs, fn_in, fn_out>>

\* process_dbh_folder, a file that is not a .csv (lines 117-118)
DbhSkip ==
    /\ pc = "dbh" /\ todo # <<>>
    /\ ~IsDbhCsv(Head(todo))
    /\ todo' = Tail(todo)
    /\ UNCHANGED <<pc, sortKind, climateDir, dbhDir, all_data, summaries, wrote, reads,
                   log, err, failedAt, done_files, result, prev, runs, fn_in, fn_out>>

\* process_dbh_folder, one .csv file (lines 120-126)
DbhFile ==
    /\ pc = "dbh" /\ todo # <<>>
    /\ IsDbhCsv(Head(todo))
    /\ LET file == Head(todo)
           out  == compute_dbh_df(dbhDir[file], sortKind)
           sensor_id == StationId(file)
       IN  /\ out.err = "none"
           /\ log' = Append(log, [msg |-> "Processing DBH:", arg |-> file])
           /\ reads' = reads \cup {InputPath(DBH_STATIC_FOLDER, file)}
           /\ all_data' = Append(all_data,
                 [df |-> [i \in 1..Len(out.df) |->
                            [idx |-> out.df[i].idx, Timestamp |-> out.df[i].Timestamp,
                             Size |-> out.df[i].Size, Sensor_ID |-> sensor_id]],
                  tsDtype |-> out.tsDtype])
           /\ done_files' = Append(done_files, InputPath(DBH_STATIC_FOLDER, file))
    /\ todo' = Tail(todo)
    /\ UNCHANGED <<pc, sortKind, climateDir, dbhDir, summaries, wrote, err, failedAt,
                   result, prev, runs, fn_in, fn_out>>

\* process_dbh_folder, one .csv file on which compute_dbh_df raises
DbhRaise ==
    /\ pc = "dbh" /\ todo # <<>>
    /\ IsDbhCsv(Head(todo))
    /\ LET file == Head(todo)
           out  == compute_dbh_df(dbhDir[file], sortKind)
       IN  /\ out.err # "none"
           /\ log' = Append(log, [msg |-> "Processing DBH:", arg |-> file])
           /\ reads' = reads \cup {InputPath(DBH_STATIC_FOLDER, file)}
           /\ err' = out.err
           /\ failedAt' = InputPath(DBH_STATIC_FOLDER, file)
    /\ pc' = "failed"
    /\ UNCHANGED <<sortKind, climateDir, dbhDir, todo, all_data, summaries, wrote,
                   done_files, result, prev, runs, fn_in, fn_out>>

process_dbh_folder_NoEmptyCheck ==
    /\ pc = "dbh" /\ todo = <<>> /\ all_data = NoFrames
    /\ err' = "ValueError"
    /\ pc' = "failed"
    /\ UNCHANGED <<sortKind, climateDir, dbhDir, todo, all_data, summaries, wrote, reads,
                   log, failedAt, done_files, result, prev, runs, fn_in, fn_out>>

\* lines 128-130 and 175: no frame was collected
DbhNoFiles ==
    /\ pc = "dbh" /\ todo = <<>> /\ all_data = NoFrames
    /\ log' = log \o <<Line("No DBH files found."), Line("Joining metadata...")>>
    /\ result' = [kind |-> "None", table |-> <<>>]
    /\ pc' = "join"
    /\ UNCHANGED <<sortKind, climateDir, dbhDir, todo, all_data, summaries, wrote, reads,
                   err, failedAt, done_files, prev, runs, fn_in, fn_out>>

\* lines 132-147 and 175: concat, groupby, growth columns, to_csv
DbhSummarize ==
    /\ pc = "dbh" /\ todo = <<>> /\ all_data # NoFrames
    /\ "datetime64" \in ConcatTsDtypes(all_data)
    /\ summaries' = WithFile(summaries, DbhSummaryName, DailyGrowth(all_data))
    /\ wrote' = wrote \cup {DbhSummaryName}
    /\ log' = log \o <<Line("DBH summary generated:"), Line("Joining metadata...")>>
    /\ result' = [kind |-> "table", table |-> DailyGrowth(all_data)]
    /\ pc' = "join"
    /\ UNCHANGED <<sortKind, climateDir, dbhDir, todo, all_data, reads, err, failedAt,
                   done_files, prev, runs, fn_in, fn_out>>

\* line 134 on a combined Timestamp column of dtype object: the .dt
\* accessor raises AttributeError
DbhSummarizeRaise ==
    /\ pc = "dbh" /\ todo = <<>> /\ all_data # NoFrames
    /\ "object" \in ConcatTsDtypes(all_data)
    /\ err' = "AttributeError"
    /\ pc' = "failed"
    /\ UNCHANGED <<sortKind, climateDir, dbhDir, todo, all_data, summaries, wrote, reads,
                   log, failedAt, done_files, result, prev, runs, fn_in, fn_out>>

\* join_metadata and the last print: the two metadata tables are read, or
\* one of them is not there and read_csv raises
JoinMetadata ==
    /\ pc = "join"
    /\ \E present \in BOOLEAN :
          IF present
          THEN /\ reads' = reads \cup {InputPath(JOINED_DENDRO_CSV, <<>>), InputPath(JOINED_TMS_CSV, <<>>)}
               /\ log' = Append(log, Line("All tasks complete."))
               /\ pc' = "done"
               /\ err' = err
          ELSE /\ err' = "FileNotFoundError"
               /\ pc' = "failed"
               /\ UNCHANGED <<reads, log>>
    /\ UNCHANGED <<sortKind, climateDir, dbhDir, todo, all_data, summaries, wrote,
                   failedAt, done_files, result, prev, runs, fn_in, fn_out>>

\* the script is run again over the same inputs and its earlier outputs
Rerun ==
    /\ pc = "done" /\ runs < MaxRuns
    /\ prev' = summaries
    /\ pc' = "start"
    /\ todo' = <<>>
    /\ all_data' = NoFrames
    /\ wrote' = {}
    /\ reads' = {}
    /\ log' = <<>>
    /\ done_files' = <<>>
    /\ result' = NoResult
    /\ UNCHANGED <<sortKind, climateDir, dbhDir, summaries, err, failedAt, runs, fn_in, fn_out>>

Next ==
    \/ Start
    \/ SummarizeSkip
    \/ SummarizeFile
    \/ SummarizeRaise
    \/ ClimateDone
    \/ DbhSkip
    \/ DbhFile
    \/ DbhRaise
    \/ DbhNoFiles
    \/ DbhSummarize
    \/ DbhSummarizeRaise
    \/ JoinMetadata
    \/ Rerun

Spec == Init /\ [][Next]_vars

-----------------------------------------------------------------------------
(* The two timestamp paths as functions of one timestamp text              *)

TzInputs ==
    {TsText(y, mo, d, h, mi) : y \in {2023, 2024}, mo \in 1..12, d \in {1, 4, 5, 12, 29, 31},
                               h \in {0, 2, 3, 4, 5, 6, 7, 16, 23}, mi \in {0, 59}}
      \cup {JunkText, EmptyText}

TzNone == [err |-> "none", value |-> 0, date |-> [y |-> 0, mo |-> 0, d |-> 0]]

InitTz ==
    /\ pc = "tz_call"
    /\ sortKind = "stable"
    /\ fn_in \in TzInputs
    /\ fn_out = [dbh |-> TzNone, climate |-> TzNone]
    /\ RunIdle

tzFrame == <<climateDir, dbhDir, todo, summaries, wrote, reads, log, err, failedAt,
             done_files, result, prev, runs>>

\* a DBH file with the one reading fn_in goes through compute_dbh_df
DbhPath ==
    /\ pc = "tz_call"
    /\ LET out == compute_dbh_df(<<DbhRow(fn_in, Tok50)>>, sortKind)
       IN  /\ all_data' = <<[df |-> [i \in 1..Len(out.df) |->
                                      [idx |-> out.df[i].idx, Timestamp |-> out.df[i].Timestamp,
                                       Size |-> out.df[i].Size, Sensor_ID |-> <<"s">>]],
                             tsDtype |-> out.tsDtype]>>
           /\ fn_out' = [fn_out EXCEPT !.dbh.err = out.err]
    /\ pc' = "tz_group"
    /\ UNCHANGED <<sortKind, fn_in, tzFrame>>

\* the local time of the reading and the date its daily row is grouped
\* under
DbhGroup ==
    /\ pc = "tz_group"
    /\ fn_out' = [fn_out EXCEPT !.dbh =
          IF fn_out.dbh.err # "none" THEN fn_out.dbh
          ELSE [err   |-> "none",
                value |-> Val(all_data[1].df[1].Timestamp),
                date  |-> DailyGrowth(all_data)[1].Timestamp]]
    /\ pc' = "tz_climate"
    /\ UNCHANGED <<sortKind, fn_in, all_data, tzFrame>>

\* a climate file with the one record fn_in: the date of its daily row
ClimatePath ==
    /\ pc = "tz_climate"
    /\ LET out == daily_summary(<<ClimateRow(fn_in, Num(1), Num(1), Num(1), Num(1), Num(1))>>, sortKind)
       IN  fn_out' = [fn_out EXCEPT !.climate =
              IF out.err # "none" THEN [TzNone EXCEPT !.err = out.err]
              ELSE IF out.table = <<>> THEN [TzNone EXCEPT !.err = "NaT"]
              ELSE [err |-> "none", value |-> 0, date |-> out.table[1].Date]]
    /\ pc' = "tz_done"
    /\ UNCHANGED <<sortKind, fn_in, runVars>>

NextTz == DbhPath \/ DbhGroup \/ ClimatePath

SpecTz == InitTz /\ [][NextTz]_vars

WrittenDate(t) == [y |-> t.y, mo |-> t.mo, d |-> t.d]

WrittenMinuteOfDay(t) == t.h * 60 + t.mi

\* the date before a valid written date
DayBefore(t) ==
    IF t.d > 1 THEN [y |-> t.y, mo |-> t.mo, d |-> t.d - 1]
    ELSE IF t.mo > 1 THEN [y |-> t.y, mo |-> t.mo - 1, d |-> DaysInMonth(t.y, t.mo - 1)]
    ELSE [y |-> t.y - 1, mo |-> 12, d |-> 31]

\* C9: a DBH timestamp is read as UTC and moved to New York time (4 hours
\* back under daylight time, 5 under standard time) before its date is
\* taken: "2023.07.04 16:00" becomes 2023-07-04 12:00 and a reading at
\* 2023.07.04 02:00 is grouped under 2023-07-03; the climate path groups the
\* same text under the date written in it.
C9_LocalizedGrouping ==
    (pc = "tz_done" /\ MatchesFormat(fn_in)) =>
        LET back == IF fn_in.mo \in 4..10 THEN {240}
                    ELSE IF fn_in.mo \in {12, 1, 2} THEN {300}
                    ELSE {240, 300}
            dbh  == fn_out.dbh
        IN  /\ dbh.err = "none" /\ fn_out.climate.err = "none"
            /\ \E b \in back :
                  /\ HourOf(dbh.value) * 60 + MinuteOf(dbh.value)
                        = (WrittenMinuteOfDay(fn_in) - b) % 1440
                  /\ dbh.date = IF WrittenMinuteOfDay(fn_in) >= b
                                THEN WrittenDate(fn_in) ELSE DayBefore(fn_in)
            /\ (fn_in.y = 2023 /\ fn_in.mo = 3 /\ fn_in.d = 12) =>
                  HourOf(dbh.value) = IF fn_in.h >= 7 THEN fn_in.h - 4 ELSE (fn_in.h + 19) % 24
            /\ (fn_in.y = 2023 /\ fn_in.mo = 11 /\ fn_in.d = 5) =>
                  HourOf(dbh.value) = IF fn_in.h >= 6 THEN fn_in.h - 5 ELSE (fn_in.h + 20) % 24
            /\ fn_in = TsText(2023, 7, 4, 16, 0) =>
                  /\ dbh.date = [y |-> 2023, mo |-> 7, d |-> 4]
                  /\ HourOf(dbh.value) = 12 /\ MinuteOf(dbh.value) = 0
            /\ fn_in = TsText(2023, 7, 4, 2, 0) => dbh.date = [y |-> 2023, mo |-> 7, d |-> 3]
            /\ fn_out.climate.date = WrittenDate(fn_in)

\* a 02:00 reading of 4 July 2023 has gone through both paths
C9_Witness ==
    /\ pc = "tz_done"
    /\ fn_in = TsText(2023, 7, 4, 2, 0)
    /\ fn_out.dbh.date = [y |-> 2023, mo |-> 7, d |-> 3]
    /\ fn_out.climate.date = [y |-> 2023, mo |-> 7, d |-> 4]

-----------------------------------------------------------------------------
(* Properties of the batch run                                             *)

LastDone == done_files[Len(done_files)]

\* a climate file has just been summarised and its table written
ClimateFileWritten == pc = "climate" /\ done_files # <<>>

LastClimateRows == climateDir[LastDone.name]

LastClimateTable == summaries[DailyPath(StationId(LastDone.name))]

HasJunk(rows) == \E i \in 1..Len(rows) : rows[i].Timestamp.kind = "junk"

RECURSIVE SumRows(_)
SumRows(table) == IF table = <<>> THEN 0 ELSE Head(table).Rows + SumRows(Tail(table))

\* the source rows of the file just summarised that are written on a date
RowsOn(date) ==
    {i \in 1..Len(LastClimateRows) :
        /\ LastClimateRows[i].Timestamp.kind = "ts"
        /\ WrittenDate(LastClimateRows[i].Timestamp) = date}

\* C3 (as claimed): the Rows of each Date is the number of source rows on
\* that Date, rows without measurements included, every Date of the file
\* has its row, and the Rows of all Dates add up to the rows of the file.
C3_Claim ==
    ClimateFileWritten =>
        /\ \A g \in 1..Len(LastClimateTable) :
              LastClimateTable[g].Rows = Cardinality(RowsOn(LastClimateTable[g].Date))
        /\ \A i \in 1..Len(LastClimateRows) :
              LastClimateRows[i].Timestamp.kind = "ts" =>
                 \E g \in 1..Len(LastClimateTable) :
                    LastClimateTable[g].Date = WrittenDate(LastClimateRows[i].Timestamp)
        /\ SumRows(LastClimateTable) = Len(LastClimateRows)

\* the non-missing values of a channel among the source rows of a date
ChannelValues(date, ch) ==
    {Val(LastClimateRows[i][ch]) : i \in {j \in RowsOn(date) : ~IsNaN(LastClimateRows[j][ch])}}

MinOrMissing(S) == IF S = {} THEN NaN ELSE Num(SetMin(S))

MaxOrMissing(S) == IF S = {} THEN NaN ELSE Num(SetMax(S))

\* the number a Size token of the input domains spells
TokenValue(tok) ==
    CASE tok = Tok50 -> Num(50) [] tok = Tok57 -> Num(57) [] tok = Tok8890 -> Num(8890)
      [] OTHER -> NaN

\* the rows of all collected DBH frames
AllDbhRows == Concat(all_data)

\* the non-missing corrected Sizes of a sensor on a local date
SizeValues(sid, date) ==
    {Val(AllDbhRows[i].Size) :
        i \in {j \in 1..Len(AllDbhRows) :
                 /\ AllDbhRows[j].Sensor_ID = sid
                 /\ DateOf(Val(AllDbhRows[j].Timestamp)) = date
                 /\ ~IsNaN(AllDbhRows[j].Size)}}

\* the DBH input files of the frames collected so far, in the same order
DbhDone == SelectRows(done_files, {i \in 1..Len(done_files) : done_files[i].folder = DBH_STATIC_FOLDER})

\* C4: every Min/Max of both pipelines is the min/max of the non-missing
\* values of its group and is missing when the group has none; a Size
\* token that is not a number is missing in the corrected frame, shifted or
\* not, and is never what makes a file fail.
C4_NullSafeMinMax ==
    /\ ClimateFileWritten =>
          \A g \in 1..Len(LastClimateTable) :
             LET row == LastClimateTable[g]
             IN  /\ row.T1_Min = MinOrMissing(ChannelValues(row.Date, "T1"))
                 /\ row.T1_Max = MaxOrMissing(ChannelValues(row.Date, "T1"))
                 /\ row.T2_Min = MinOrMissing(ChannelValues(row.Date, "T2"))
                 /\ row.T2_Max = MaxOrMissing(ChannelValues(row.Date, "T2"))
                 /\ row.T3_Min = MinOrMissing(ChannelValues(row.Date, "T3"))
                 /\ row.T3_Max = MaxOrMissing(ChannelValues(row.Date, "T3"))
                 /\ row.Soil_Min = MinOrMissing(ChannelValues(row.Date, "SM"))
                 /\ row.Soil_Max = MaxOrMissing(ChannelValues(row.Date, "SM"))
                 /\ row.Shake_Max = MaxOrMissing(ChannelValues(row.Date, "SH"))
    /\ \A k \in 1..Len(all_data) : \A i \in 1..Len(all_data[k].df) :
          LET r   == all_data[k].df[i]
              tok == dbhDir[DbhDone[k].name][r.idx + 1].Size
          IN  IF IsNaN(TokenValue(tok)) THEN IsNaN(r.Size)
              ELSE r.Size \in {TokenValue(tok), Num(Val(TokenValue(tok)) + 8890)}
    /\ (pc = "failed" /\ failedAt.folder = DBH_STATIC_FOLDER /\ err \in {"ValueError", "TypeError"}) =>
          HasJunk(dbhDir[failedAt.name])
    /\ result.kind = "table" =>
          \A g \in 1..Len(result.table) :
             LET row == result.table[g]
             IN  /\ row.Min_Size = MinOrMissing(SizeValues(row.Sensor_ID, row.Timestamp))
                 /\ row.Max_Size = MaxOrMissing(SizeValues(row.Sensor_ID, row.Timestamp))

\* the DBH table holds a group whose Min_Size was taken over a missing
\* Size next to a present one
C4_Witness ==
    /\ result.kind = "table"
    /\ \E h \in 1..Len(result.table) :
          /\ result.table[h].Min_Size = Num(57)
          /\ result.table[h].Max_Size = Num(57)
          /\ \E i \in 1..Len(AllDbhRows) :
                /\ IsNaN(AllDbhRows[i].Size)
                /\ AllDbhRows[i].Sensor_ID = result.table[h].Sensor_ID
                /\ DateOf(Val(AllDbhRows[i].Timestamp)) = result.table[h].Timestamp

\* the files of the DBH folder that are .csv files, in any letter case
CsvFiles(dir) == {n \in DOMAIN dir : EndsWith(Lower(n), DotCsv)}

\* the files of the climate folder that end in ".csv"
ClimateCsvFiles == {n \in DOMAIN climateDir : EndsWith(n, DotCsv)}

\* the DBH stage is over: the run is at the metadata stage or beyond it
DbhStageOver ==
    \/ pc \in {"join", "done"}
    \/ pc = "failed" /\ err = "FileNotFoundError"

\* the DBH stage came to its end, by returning or by raising after the
\* last file
DbhStageEnded ==
    \/ DbhStageOver
    \/ pc = "failed" /\ failedAt = NoPath /\ err # "FileNotFoundError"

\* C5 (as claimed): a climate file without data rows gives a header-only
\* table, and a DBH folder whose files have no data rows (one file or
\* several) gives a header-only dbh_summary.csv; neither stage raises.
C5_Claim ==
    /\ (ClimateFileWritten /\ LastClimateRows = <<>>) => LastClimateTable = <<>>
    /\ (\A n \in ClimateCsvFiles : climateDir[n] = <<>>) =>
          ~(pc = "failed" /\ failedAt.folder = EXTRACT_FOLDER)
    /\ (/\ CsvFiles(dbhDir) # {}
        /\ \A n \in CsvFiles(dbhDir) : dbhDir[n] = <<>>
        /\ DbhStageEnded) =>
          /\ DbhStageOver
          /\ DbhSummaryName \in wrote
          /\ summaries[DbhSummaryName] = <<>>

SummerLocalDate(t) == IF WrittenMinuteOfDay(t) >= 240 THEN WrittenDate(t) ELSE DayBefore(t)

\* the (Sensor_ID, local date) pairs of the rows of all DBH input files
InputPairs ==
    UNION {{[sid |-> StationId(n), date |-> SummerLocalDate(dbhDir[n][i].Timestamp)] :
               i \in 1..Len(dbhDir[n])} : n \in CsvFiles(dbhDir)}

\* C7: the combined table has exactly one row for every (Sensor_ID, local
\* date) pair of the input files, each row over the pooled rows of the
\* pair, with Growth_mm = Max_Size - Min_Size >= 0 and Growth_cm a tenth
\* of Growth_mm; equal Min_Size and Max_Size give zero growth.
C7_CombinedGrowth ==
    (DbhSummaryName \in wrote) =>
        LET t == summaries[DbhSummaryName]
        IN  /\ \A g, h \in 1..Len(t) :
                  (t[g].Sensor_ID = t[h].Sensor_ID /\ t[g].Timestamp = t[h].Timestamp) => g = h
            /\ {[sid |-> t[g].Sensor_ID, date |-> t[g].Timestamp] : g \in 1..Len(t)} = InputPairs
            /\ \A g \in 1..Len(t) :
                  /\ t[g].Min_Size = MinOrMissing(SizeValues(t[g].Sensor_ID, t[g].Timestamp))
                  /\ t[g].Max_Size = MaxOrMissing(SizeValues(t[g].Sensor_ID, t[g].Timestamp))
                  /\ IsNaN(t[g].Growth_mm) <=> (IsNaN(t[g].Min_Size) \/ IsNaN(t[g].Max_Size))
                  /\ IsNaN(t[g].Growth_cm) <=> IsNaN(t[g].Growth_mm)
                  /\ ~IsNaN(t[g].Growth_mm) =>
                        /\ Val(t[g].Growth_mm) = Val(t[g].Max_Size) - Val(t[g].Min_Size)
                        /\ Val(t[g].Growth_mm) >= 0
                        /\ Val(t[g].Growth_cm).tenths \in 0..9
                        /\ 10 * Val(t[g].Growth_cm).units + Val(t[g].Growth_cm).tenths
                              = Val(t[g].Growth_mm)
                        /\ t[g].Min_Size = t[g].Max_Size =>
                              /\ Val(t[g].Growth_mm) = 0
                              /\ Val(t[g].Growth_cm) = [units |-> 0, tenths |-> 0]

\* two files of the same sensor gave one row of positive growth
C7_Witness ==
    /\ DbhSummaryName \in wrote
    /\ Cardinality(CsvFiles(dbhDir)) = 2
    /\ \A n \in CsvFiles(dbhDir) : StationId(n) = <<"s">> /\ Len(dbhDir[n]) = 1
    /\ Len(summaries[DbhSummaryName]) = 1
    /\ summaries[DbhSummaryName][1].Growth_mm = Num(8833)

\* C8 (as claimed): a second run over the same inputs leaves ./Summaries
\* as the run before it left it, whatever the listing orders, and no run
\* reads from ./Summaries.
C8_Claim ==
    /\ (pc = "done" /\ runs >= 2) => summaries = prev
    /\ \A r \in reads : r.folder # SUMMARIES_FOLDER

LogHas(msg) == \E i \in 1..Len(log) : log[i].msg = msg

LogPos(msg) == CHOOSE i \in 1..Len(log) : log[i].msg = msg

\* C10: with no .csv file in the DBH folder the stage prints its message,
\* returns None, does not raise, leaves dbh_summary.csv alone, and the run
\* goes on to the metadata stage; the stages start in the fixed order.
C10_NoDbhFiles ==
    /\ (CsvFiles(dbhDir) = {} /\ pc \in {"join", "done", "failed"}
           /\ (pc = "failed" => failedAt.folder # EXTRACT_FOLDER)) =>
          /\ DbhStageOver
          /\ LogHas("No DBH files found.")
          /\ result = [kind |-> "None", table |-> <<>>]
          /\ DbhSummaryName \notin wrote
          /\ DbhSummaryName \in DOMAIN summaries =>
                (DbhSummaryName \in DOMAIN prev /\ summaries[DbhSummaryName] = prev[DbhSummaryName])
          /\ log[LogPos("No DBH files found.") + 1].msg = "Joining metadata..."
    /\ LogHas("No DBH files found.") => CsvFiles(dbhDir) = {}
    /\ LogHas("Processing DBH corrections...") =>
          /\ log[1].msg = "Generating climate summaries..."
          /\ LogPos("Processing DBH corrections...") = 2
    /\ LogHas("Joining metadata...") =>
          /\ LogHas("Processing DBH corrections...")
          /\ LogPos("Joining metadata...") > LogPos("Processing DBH corrections...")
          /\ pc \in {"join", "done", "failed"}
    /\ pc \in {"join", "done"} => log[Len(log) - (IF pc = "done" THEN 1 ELSE 0)].msg = "Joining metadata..."

\* a DBH folder that holds only a file that is not a .csv, run to the end
C10_Witness ==
    /\ pc = "done"
    /\ DOMAIN dbhDir # {}
    /\ CsvFiles(dbhDir) = {}
    /\ LogHas("No DBH files found.")
    /\ summaries # EmptyDir

====
